---- MODULE Spec2Model ----
(***************************************************************************)
(* Amortization schedule generators of loan-gauge and the dashboard that   *)
(* displays one of them.                                                   *)
(*                                                                         *)
(* Numbers.  The Python code computes in binary floating point.  The model *)
(* computes the same expressions over exact rationals                      *)
(* <<numerator, denominator>> kept in lowest terms with a positive         *)
(* denominator; np.round is the only place where the code itself rounds,   *)
(* and it is modelled as what it does (scale, round half to even, scale    *)
(* back).  The tolerance of the checked properties (0.01) is far above the *)
(* floating point error of the code at the modelled magnitudes.            *)
(***************************************************************************)
EXTENDS Integers, Sequences, FiniteSets, TLC

(***************************************************************************)
(* Bounds of the model.                                                    *)
(***************************************************************************)
\* principal is drawn from -1 .. MaxPrincipal (whole currency units)
MaxPrincipal == 100
\* years is drawn from -1 .. MaxYears
MaxYears == 3
\* (1 + rate) ** nper is evaluated for a non-zero rate only up to this many
\* periods: beyond it the exact powers leave the model checker's integers
MaxCompoundNper == 12
\* the years value handed to the dashboard's display_area is 0 .. MaxYearsArg
MaxYearsArg == 11

(***************************************************************************)
(* Exact rational arithmetic (the float operators + - * / ** of Python).   *)
(***************************************************************************)
Abs(i) == IF i < 0 THEN -i ELSE i

RECURSIVE GCD(_, _)
GCD(a, b) == IF b = 0 THEN a ELSE GCD(b, a % b)

Norm(n, d) ==
    LET g == GCD(Abs(n), Abs(d))
        s == IF d < 0 THEN -1 ELSE 1
    IN  <<(s * n) \div g, (s * d) \div g>>

Rat(i) == <<i, 1>>
\* sums over the least common denominator and products with the common
\* factors cancelled first: the values are those of the textbook formulas,
\* the intermediate integers are smaller
RAdd(a, b) ==
    LET g == GCD(a[2], b[2])
    IN  Norm(a[1] * (b[2] \div g) + b[1] * (a[2] \div g), (a[2] \div g) * b[2])
RNeg(a) == <<-a[1], a[2]>>
RSub(a, b) == RAdd(a, RNeg(b))
RMul(a, b) ==
    LET g1 == GCD(Abs(a[1]), b[2])
        g2 == GCD(Abs(b[1]), a[2])
    IN  Norm((a[1] \div g1) * (b[1] \div g2), (a[2] \div g2) * (b[2] \div g1))
RDiv(a, b) == RMul(a, Norm(b[2], b[1]))
RLeq(a, b) == RAdd(a, RNeg(b))[1] <= 0
RLt(a, b) == RAdd(a, RNeg(b))[1] < 0
RAbs(a) == <<Abs(a[1]), a[2]>>

\* a ** k for an integer k, by repeated squaring
RECURSIVE RPow(_, _)
RPow(a, k) ==
    IF k = 0 THEN Rat(1)
    ELSE IF k < 0 THEN RDiv(Rat(1), RPow(a, -k))
    ELSE IF k % 2 = 0 THEN LET h == RPow(a, k \div 2) IN RMul(h, h)
    ELSE RMul(a, RPow(a, k - 1))

\* np.rint: the nearest integer, a tie going to the even one
Rint(a) ==
    LET fl == a[1] \div a[2]
        rem == a[1] % a[2]
    IN  IF 2 * rem < a[2] THEN fl
        ELSE IF 2 * rem > a[2] THEN fl + 1
        ELSE IF fl % 2 = 0 THEN fl ELSE fl + 1

\* np.round(x, 2) replaced by a truncation to two decimals
Round2_truncate(a) == Norm(RMul(a, Rat(100))[1] \div RMul(a, Rat(100))[2], 100)

\* np.round(x, 2)
Round2(a) == Norm(Rint(RMul(a, Rat(100))), 100)
\* np.round(x)
Round0(a) == Rat(Rint(a))

Zero == Rat(0)
Cent == <<1, 100>>

(***************************************************************************)
(* The financial functions both generators call: pmt, fv, ipmt, ppmt, with *)
(* fv = 0 and when = 'end' (0), the defaults both callers leave in place.  *)
(***************************************************************************)
pmt(rate, nper, pv) ==
    LET temp == RPow(RAdd(Rat(1), rate), nper)
        fact == IF rate = Zero THEN Rat(nper)
                ELSE RDiv(RSub(temp, Rat(1)), rate)
    IN  RDiv(RNeg(RMul(pv, temp)), fact)

fv(rate, nper, payment, pv) ==
    IF rate = Zero
    THEN RNeg(RAdd(pv, RMul(payment, Rat(nper))))
    ELSE LET temp == RPow(RAdd(Rat(1), rate), nper)
         IN  RSub(RNeg(RMul(pv, temp)),
                  RMul(RDiv(payment, rate), RSub(temp, Rat(1))))

\* ipmt taking the balance after the period's payment, not before it
ipmt_after_payment(rate, per, nper, pv) ==
    RMul(fv(rate, per, pmt(rate, nper, pv), pv), rate)

ipmt(rate, per, nper, pv) ==
    RMul(fv(rate, per - 1, pmt(rate, nper, pv), pv), rate)

\* ppmt adding the interest to the payment instead of taking it off
ppmt_plus_interest(rate, per, nper, pv) ==
    RAdd(pmt(rate, nper, pv), ipmt(rate, per, nper, pv))

ppmt(rate, per, nper, pv) ==
    RSub(pmt(rate, nper, pv), ipmt(rate, per, nper, pv))

\* a numpy array: the elements are computed once, when the array is built
array(f) == <<>> \o f

\* np.arange(1, n): the last month left out
arange_exclusive(n) == array([i \in 1..(IF n > 1 THEN n - 1 ELSE 0) |-> i])

\* np.arange(1, n + 1)
arange(n) == array([i \in 1..(IF n > 0 THEN n ELSE 0) |-> i])

\* np.cumsum
\* s[lo] + ... + s[hi]; the sum is exact, so it is the same in any grouping,
\* and it is grouped in halves to keep the evaluation shallow
RECURSIVE Sum(_, _, _)
Sum(s, lo, hi) ==
    IF lo > hi THEN Zero
    ELSE IF lo = hi THEN s[lo]
    ELSE LET mid == (lo + hi) \div 2
         IN  RAdd(Sum(s, lo, mid), Sum(s, mid + 1, hi))

\* np.cumsum
cumsum(s) == array([i \in DOMAIN s |-> Sum(s, 1, i)])

(***************************************************************************)
(* loan_gauge/mortgage.py                                                  *)
(***************************************************************************)
generate_mortgage_schedule(principal_, annual_interest_rate_, years_) ==
    LET monthly_interest_rate == RDiv(annual_interest_rate_, Rat(12))
        n_payments == years_ * 12
        monthly_payment ==
            pmt(monthly_interest_rate, n_payments, RNeg(Rat(principal_)))
        months == arange(n_payments)
        monthly_interest ==
            array([i \in DOMAIN months |->
                ipmt(monthly_interest_rate, months[i], n_payments,
                     RNeg(Rat(principal_)))])
        monthly_principle ==
            array([i \in DOMAIN months |->
                ppmt(monthly_interest_rate, months[i], n_payments,
                     RNeg(Rat(principal_)))])
        cumulative_interest == cumsum(monthly_interest)
        cumulative_principal == cumsum(monthly_principle)
        cumulative_payment ==
            array([i \in DOMAIN months |->
                RAdd(cumulative_interest[i], cumulative_principal[i])])
        remaining_balance ==
            array([i \in DOMAIN months |->
                RSub(Rat(principal_), cumulative_principal[i])])
    IN  array([i \in DOMAIN months |->
            [Month |-> months[i],
             MonthlyPayment |-> Round2(monthly_payment),
             MonthlyPrincipal |-> Round2(monthly_principle[i]),
             MonthlyInterest |-> Round2(monthly_interest[i]),
             InterestPaid |-> Round0(cumulative_interest[i]),
             PrincipalPaid |-> Round0(cumulative_principal[i]),
             TotalPaid |-> Round2(cumulative_payment[i]),
             RemainingBalance |-> Round2(remaining_balance[i])]])

(***************************************************************************)
(* app/mortgage.py                                                         *)
(***************************************************************************)
monthly_payments(principal_, annual_interest_rate_, years_) ==
    LET monthly_interest_rate == RDiv(annual_interest_rate_, Rat(12))
        n_payments == years_ * 12
        months == arange(n_payments)
        interest_paid ==
            array([i \in DOMAIN months |->
                ipmt(monthly_interest_rate, months[i], n_payments,
                     RNeg(Rat(principal_)))])
        principal_paid ==
            array([i \in DOMAIN months |->
                ppmt(monthly_interest_rate, months[i], n_payments,
                     RNeg(Rat(principal_)))])
        cumulative_principal_paid == cumsum(principal_paid)
        remaining_balance ==
            array([i \in DOMAIN months |->
                RAdd(Rat(principal_), cumulative_principal_paid[i])])
    IN  array([i \in DOMAIN months |->
            [Month |-> months[i],
             PrincipalPaid |-> RNeg(principal_paid[i]),
             InterestPaid |-> RNeg(interest_paid[i]),
             RemainingBalance |-> remaining_balance[i],
             TotalPaid |-> RNeg(RAdd(principal_paid[i], interest_paid[i]))]])

(***************************************************************************)
(* loan_gauge/main.py: the dashboard.  The table built at module load is   *)
(* a pure function of the three arguments of the call that built it and is *)
(* identified by them: its 300 rows at 4.5% are outside the model          *)
(* checker's integers.                                                     *)
(***************************************************************************)
LoadPrincipal == 300000
LoadYears == 25
LoadRate == RDiv(<<45, 10>>, Rat(100))
InitialYears == 25

Table(p, r, y) == [principal |-> p, annual_interest_rate |-> r, years |-> y]

Columns ==
    {"Month", "Monthly Payment", "Monthly Principal", "Monthly Interest",
     "Interest Paid", "Principal Paid", "Total Paid", "Remaining Balance"}

\* a column of a table, as handed to a chart
Column(table, name) == [of |-> table, column |-> name]

EmptyFigure == [kind |-> "empty"]
NoFigure == [kind |-> "none"]

VARIABLES
    fn,                    \* the generator called, "none" before the call
    principal,             \* its arguments
    annual_interest_rate,
    years,
    outcome,               \* how the call ended: "returned" or an error's name
    rows,                  \* the rows it returned
    df,                    \* main.py: the module-level table
    generated,             \* main.py: calls of generate_mortgage_schedule so far
    years_value,           \* value of the "years" radio items
    col_value,             \* value of "controls-and-radio-item"
    controls_and_graph,            \* figure of "controls-and-graph"
    interest_vs_principal_graph    \* figure of "interest-vs-principal-graph"

libvars == <<fn, principal, annual_interest_rate, years, outcome, rows>>
dashvars == <<df, generated, years_value, col_value, controls_and_graph,
              interest_vs_principal_graph>>
vars == <<libvars, dashvars>>

\* px.area(df, x="Month", y=col_chosen)
update_graph(col_chosen) ==
    [kind |-> "area", x |-> Column(df, "Month"), y |-> Column(df, col_chosen)]

\* display_area building a table of its own for the years it is given
display_area_recompute(years_) ==
    LET fresh == Table(LoadPrincipal, LoadRate, years_)
    IN  [kind |-> "stacked",
         data |-> <<[x |-> Column(fresh, "Month"),
                     y |-> Column(fresh, "Principal Paid"),
                     stackgroup |-> "one", name |-> "Principal Paid"],
                    [x |-> Column(fresh, "Month"),
                     y |-> Column(fresh, "Interest Paid"),
                     stackgroup |-> "one", name |-> "Interest Paid"]>>,
         layout |-> [title |-> "Mortgage Payments (Principal vs Interest)",
                     xaxis |-> "Month", yaxis |-> "Amount Paid"]]

display_area(years_) ==
    [kind |-> "stacked",
     data |-> <<[x |-> Column(df, "Month"),
                 y |-> Column(df, "Principal Paid"),
                 stackgroup |-> "one", name |-> "Principal Paid"],
                [x |-> Column(df, "Month"),
                 y |-> Column(df, "Interest Paid"),
                 stackgroup |-> "one", name |-> "Interest Paid"]>>,
     layout |-> [title |-> "Mortgage Payments (Principal vs Interest)",
                 xaxis |-> "Month", yaxis |-> "Amount Paid"]]

\* state of the dashboard once main.py is loaded and the layout is built
DashLoaded ==
    /\ df = Table(LoadPrincipal, LoadRate, LoadYears)
    /\ generated = 1
    /\ years_value = InitialYears
    /\ col_value = "Remaining Balance"
    /\ controls_and_graph = EmptyFigure
    /\ interest_vs_principal_graph = NoFigure

(***************************************************************************)
(* Calls of the two generators: the arguments are drawn at the start and   *)
(* one of the generators is applied to them.                               *)
(***************************************************************************)
Principals == -1..MaxPrincipal
Rates == {Rat(-12), Rat(0), Rat(12)}
Years == -1..MaxYears

\* the argument triples the model evaluates
Computable(r, y) == r # Zero => y * 12 <= MaxCompoundNper

Init ==
    /\ fn = "none"
    /\ principal \in Principals
    /\ annual_interest_rate \in Rates
    /\ years \in Years
    /\ Computable(annual_interest_rate, years)
    /\ outcome = "none"
    /\ rows = <<>>
    /\ DashLoaded

\* neither generator validates its arguments or raises: every call returns
Generate ==
    /\ fn = "none"
    /\ fn' = "generate_mortgage_schedule"
    /\ outcome' = "returned"
    /\ rows' = generate_mortgage_schedule(principal, annual_interest_rate, years)
    /\ UNCHANGED <<principal, annual_interest_rate, years, dashvars>>

MonthlyPayments ==
    /\ fn = "none"
    /\ fn' = "monthly_payments"
    /\ outcome' = "returned"
    /\ rows' = monthly_payments(principal, annual_interest_rate, years)
    /\ UNCHANGED <<principal, annual_interest_rate, years, dashvars>>

Next == Generate \/ MonthlyPayments

Spec == Init /\ [][Next]_vars

(***************************************************************************)
(* The dashboard's callbacks, fired with any value of their input.         *)
(***************************************************************************)
ColumnArgs == Columns \cup {"No Such Column"}
YearsArgs == 0..MaxYearsArg

DashInit ==
    /\ fn = "none"
    /\ principal = 0
    /\ annual_interest_rate = Zero
    /\ years = 0
    /\ outcome = "none"
    /\ rows = <<>>
    /\ DashLoaded

\* px.area raises ValueError for a name that is no column of df: the callback
\* fails and the figure on display stays
UpdateGraph ==
    \E col_chosen \in ColumnArgs :
        /\ col_value' = col_chosen
        /\ controls_and_graph' =
               IF col_chosen \in Columns THEN update_graph(col_chosen)
               ELSE controls_and_graph
        /\ UNCHANGED <<df, generated, years_value, interest_vs_principal_graph,
                       libvars>>

DisplayArea ==
    \E y \in YearsArgs :
        /\ years_value' = y
        /\ interest_vs_principal_graph' = display_area(y)
        /\ UNCHANGED <<df, generated, col_value, controls_and_graph, libvars>>

DashNext == UpdateGraph \/ DisplayArea

DashSpec == DashInit /\ [][DashNext]_vars

(***************************************************************************)
(* Properties.                                                             *)
(***************************************************************************)
ValidTerms ==
    /\ principal > 0
    /\ RLeq(Zero, annual_interest_rate)
    /\ years > 0

Generated == fn = "generate_mortgage_schedule"
Paid == fn = "monthly_payments"

Within(a, b, tol) == RLeq(RAbs(RSub(a, b)), tol)
IsCents(a) == 100 % a[2] = 0

NonIncreasingBalance ==
    \A i \in 1..(Len(rows) - 1) :
        RLeq(rows[i + 1].RemainingBalance, rows[i].RemainingBalance)

\* C1: for valid terms generate_mortgage_schedule returns years*12 rows whose
\* Month column is 1, 2, ..., years*12 in that order.
C1_RowCountAndMonths ==
    (Generated /\ ValidTerms) =>
        /\ Len(rows) = years * 12
        /\ \A i \in 1..Len(rows) : rows[i].Month = i

C1_Witness == Generated /\ ValidTerms /\ Len(rows) = 24 /\ rows[24].Month = 24

\* C2: a call of either generator with principal <= 0, a negative rate or
\* years <= 0 ends in InvalidLoanTermsError and returns no rows.
C2_InvalidTermsRejected ==
    (fn # "none" /\ ~ValidTerms) =>
        (outcome = "InvalidLoanTermsError" /\ rows = <<>>)

\* C3: for valid terms the Remaining Balance column of
\* generate_mortgage_schedule never increases from one row to the next, and
\* the last row's Remaining Balance is 0 within 0.01.
C3_BalanceDecreasesToZero ==
    (Generated /\ ValidTerms) =>
        /\ NonIncreasingBalance
        /\ Within(rows[Len(rows)].RemainingBalance, Zero, Cent)

C3_Witness ==
    /\ Generated /\ ValidTerms /\ annual_interest_rate # Zero
    /\ RLt(rows[12].RemainingBalance, rows[11].RemainingBalance)
    /\ RLt(rows[11].RemainingBalance, rows[1].RemainingBalance)
    /\ rows[2].RemainingBalance = rows[1].RemainingBalance

\* C4: for valid terms, in every row of generate_mortgage_schedule the
\* rounded Monthly Principal plus the rounded Monthly Interest is the Monthly
\* Payment within 0.01, and Monthly Payment is the same in every row.
C4_PortionsAddUpToPayment ==
    (Generated /\ ValidTerms) =>
        \A i \in 1..Len(rows) :
            /\ Within(RAdd(rows[i].MonthlyPrincipal, rows[i].MonthlyInterest),
                      rows[i].MonthlyPayment, Cent)
            /\ rows[i].MonthlyPayment = rows[1].MonthlyPayment

\* a row whose rounded portions miss the rounded payment by a whole cent
C4_Witness ==
    /\ Generated /\ ValidTerms /\ annual_interest_rate # Zero
    /\ \E i \in 1..Len(rows) :
          /\ rows[i].MonthlyInterest # Zero
          /\ rows[i].MonthlyPrincipal # Zero
          /\ RAdd(rows[i].MonthlyPrincipal, rows[i].MonthlyInterest)
                 # rows[i].MonthlyPayment

\* C5: for valid terms the rounded Monthly Principal values of
\* generate_mortgage_schedule add up to principal within 0.01.
C5_PrincipalPortionsAddUp ==
    (Generated /\ ValidTerms) =>
        Within(Sum([i \in 1..Len(rows) |-> rows[i].MonthlyPrincipal],
                   1, Len(rows)),
               Rat(principal), Cent)

\* C6: for valid terms, in every row of generate_mortgage_schedule Remaining
\* Balance is principal minus the Principal Paid column within 0.01.
C6_BalanceIsPrincipalMinusPaid ==
    (Generated /\ ValidTerms) =>
        \A i \in 1..Len(rows) :
            Within(rows[i].RemainingBalance,
                   RSub(Rat(principal), rows[i].PrincipalPaid), Cent)

\* C7 as stated: at a zero rate every row's Monthly Payment is exactly
\* principal / (years*12) and its Monthly Interest is 0.
C7_ZeroRatePaymentExact ==
    (Generated /\ ValidTerms /\ annual_interest_rate = Zero) =>
        \A i \in 1..Len(rows) :
            /\ rows[i].MonthlyPayment = RDiv(Rat(principal), Rat(years * 12))
            /\ rows[i].MonthlyInterest = Zero

\* C7 amended: at a zero rate every row's Monthly Payment is
\* principal / (years*12) rounded to whole cents (a multiple of 0.01 within
\* 0.005 of it) and its Monthly Interest is 0.
C7_ZeroRatePaymentRounded ==
    (Generated /\ ValidTerms /\ annual_interest_rate = Zero) =>
        \A i \in 1..Len(rows) :
            /\ IsCents(rows[i].MonthlyPayment)
            /\ Within(rows[i].MonthlyPayment,
                      RDiv(Rat(principal), Rat(years * 12)), <<1, 200>>)
            /\ rows[i].MonthlyInterest = Zero

\* a zero-rate schedule whose payment is not a whole number of cents
C7_Witness ==
    /\ Generated /\ ValidTerms /\ annual_interest_rate = Zero
    /\ Len(rows) = 12
    /\ rows[1].MonthlyPayment # RDiv(Rat(principal), Rat(years * 12))

\* C8: for valid terms the Remaining Balance column of monthly_payments never
\* increases, is 0 in the last row, and agrees row by row with the Remaining
\* Balance of generate_mortgage_schedule up to rounding.
C8_PaymentsBalanceAgrees ==
    (Paid /\ ValidTerms) =>
        /\ NonIncreasingBalance
        /\ Within(rows[Len(rows)].RemainingBalance, Zero, Cent)
        /\ LET other == generate_mortgage_schedule(
                            principal, annual_interest_rate, years)
           IN  /\ Len(other) = Len(rows)
               /\ \A i \in 1..Len(rows) :
                      Within(rows[i].RemainingBalance,
                             other[i].RemainingBalance, Cent)

\* C9: for valid terms the Principal Paid, Interest Paid and Total Paid
\* columns of monthly_payments are non-negative in every row.
C9_PaidColumnsNonNegative ==
    (Paid /\ ValidTerms) =>
        \A i \in 1..Len(rows) :
            /\ RLeq(Zero, rows[i].PrincipalPaid)
            /\ RLeq(Zero, rows[i].InterestPaid)
            /\ RLeq(Zero, rows[i].TotalPaid)

\* C10: the dashboard's table is the one built at module load for
\* 300000, 0.045, 25; no callback builds another or changes it; and the
\* figure of display_area is the same whatever its years argument.
C10_TableFixedFigureIndependentOfYears ==
    LET loaded == Table(300000, <<9, 200>>, 25)
    IN  /\ df = loaded
        /\ generated = 1
        /\ interest_vs_principal_graph # NoFigure =>
              /\ interest_vs_principal_graph.data[1].x = Column(loaded, "Month")
              /\ interest_vs_principal_graph.data[1].y
                     = Column(loaded, "Principal Paid")
              /\ interest_vs_principal_graph.data[2].x = Column(loaded, "Month")
              /\ interest_vs_principal_graph.data[2].y
                     = Column(loaded, "Interest Paid")

C10_Witness ==
    /\ interest_vs_principal_graph # NoFigure
    /\ years_value \notin {InitialYears, LoadYears}
    /\ controls_and_graph # EmptyFigure
    /\ col_value = "No Such Column"

====
